---------------------------- MODULE Spec2Model ----------------------------
(***************************************************************************)
(* A model of NeoMutt's IMAP "AUTHENTICATE PLAIN" driver                    *)
(* (imap/auth_plain.c) and of the growable Buffer it sits next to          *)
(* (lib/lib_buffer.c).                                                     *)
(*                                                                         *)
(* Bytes are ASCII codes.  A C array is a sequence; C index i is element   *)
(* i + 1 of the sequence.                                                  *)
(***************************************************************************)
EXTENDS Integers, Sequences, FiniteSets, TLC

(***************************************************************************)
(* Bounds of the model.                                                    *)
(***************************************************************************)
\* longest sequence of results the server's command reader is asked for
MaxSteps == 4
\* short encoded payloads have 1 .. MaxShortPayload bytes
MaxShortPayload == 2
\* the longest payload asked of the encoder exceeds the room by this much
MaxOverflow == 1
\* number of append and format calls made on one Buffer
MaxOps == 3
\* short strings given to the Buffer have 0 .. MaxSmallLen characters
MaxSmallLen == 1
\* long strings have GROW - 1 .. GROW - 1 + MaxBigOver characters
MaxBigOver == 1

(***************************************************************************)
(* Bytes.                                                                  *)
(***************************************************************************)
NUL == 0
LF == 10
CR == 13
SP == 32

\* sizeof(buf) of the driver's message buffer, char buf[STRING]
sizeof_buf == 256

\* static const char auth_plain_cmd[] = "AUTHENTICATE PLAIN"
auth_plain_cmd ==
  <<65, 85, 84, 72, 69, 78, 84, 73, 67, 65, 84, 69, 32, 80, 76, 65, 73, 78>>

\* sizeof(auth_plain_cmd): the characters and the terminator
sizeof_auth_plain_cmd == Len(auth_plain_cmd) + 1

\* "\r\n"
CRLF == <<CR, LF>>

(***************************************************************************)
(* Results of imap_cmd_step and of imap_auth_plain.                        *)
(***************************************************************************)
IMAP_CMD_OK == "IMAP_CMD_OK"                \* step: OK
IMAP_CMD_BAD == "IMAP_CMD_BAD"              \* step: UNAVAILABLE
IMAP_CMD_NO == "IMAP_CMD_NO"                \* step: REJECTED
IMAP_CMD_CONTINUE == "IMAP_CMD_CONTINUE"    \* step: MORE
IMAP_CMD_RESPOND == "IMAP_CMD_RESPOND"      \* step: CONTINUE_REQUESTED

IMAP_AUTH_SUCCESS == "IMAP_AUTH_SUCCESS"
IMAP_AUTH_FAILURE == "IMAP_AUTH_FAILURE"
IMAP_AUTH_UNAVAIL == "IMAP_AUTH_UNAVAIL"

NonTerminal == {IMAP_CMD_CONTINUE, IMAP_CMD_RESPOND}
Terminal == {IMAP_CMD_OK, IMAP_CMD_NO, IMAP_CMD_BAD}

(***************************************************************************)
(* C strings in a char array.                                              *)
(***************************************************************************)
\* strlen(b + off)
StrLen(b, off) ==
  LET nuls == {i \in off..(Len(b) - 1) : b[i + 1] = NUL}
  IN  (CHOOSE i \in nuls : \A j \in nuls : i <= j) - off

\* the characters of the string at b + off
CStr(b, off) == [i \in 1..StrLen(b, off) |-> b[off + i]]

\* b with the bytes of s stored from C index off on
Store(b, off, s) ==
  IF off >= Len(b) THEN b
  ELSE LET end == IF off + Len(s) < Len(b) THEN off + Len(s) ELSE Len(b)
       IN  SubSeq(b, 1, off) \o SubSeq(s, 1, end - off) \o SubSeq(b, end + 1, Len(b))

\* the first n elements of s
Take(s, n) == SubSeq(s, 1, IF n < Len(s) THEN n ELSE Len(s))

\* the base64 alphabet as far as the model needs it: position-dependent bytes
PayloadByte(i) == <<81, 85, 74, 61>>[((i - 1) % 4) + 1]

\* the transport-encoded credentials of n bytes
Payload(n) == [i \in 1..n |-> PayloadByte(i)]

\* mutt_sasl_plain_msg(buf, buflen, cmd, authz, user, pass): cmd, a space and
\* the encoded credentials, cut to what buflen holds, NUL-terminated
mutt_sasl_plain_msg(b, buflen, cmd, payload) ==
  LET text == Take(cmd \o <<SP>> \o payload, buflen - 1)
  IN  Store(b, 0, text \o <<NUL>>)

\* mutt_str_strcat(b + off, buflen, s): append s to the string at b + off,
\* never writing more than buflen bytes including the terminator
mutt_str_strcat(b, off, buflen, s) ==
  LET old  == StrLen(b, off)
      room == IF buflen - 1 > old THEN buflen - 1 - old ELSE 0
      add  == Take(s, room)
  IN  IF buflen = 0 THEN b ELSE Store(b, off + old, add \o <<NUL>>)


(***************************************************************************)
(* State of one call of imap_auth_plain and of its collaborators.          *)
(***************************************************************************)
VARIABLES
  pc,            \* position in imap_auth_plain
  rc,            \* int rc
  res,           \* enum ImapAuthRes res
  ret,           \* the value returned, "none" until the call returns
  buf,           \* char buf[STRING]
  account,       \* the fields of mdata->conn->account that are filled in
  capabilities,  \* mdata->capabilities, a set of capability bits
  cred,          \* the account: length of its encoded credentials
  script,        \* the results the command reader will report, in order
  stepLog,       \* the results imap_cmd_step has returned so far
  wire,          \* the texts handed to imap_cmd_start and mutt_socket_send
  notes          \* the calls of mutt_message, mutt_error, mutt_clear_error

\* struct Buffer and the storage it points to
VARIABLES
  handle,        \* the caller's struct Buffer *: "none", "live" or "NULL"
  data,          \* the bytes of the block buf->data points to, <<>> if NULL
  dsize,         \* buf->dsize
  dptr,          \* buf->dptr as an offset from buf->data
  overrun,       \* whether a byte was written outside the block
  nops,          \* number of append and format calls made so far
  written,       \* the characters given to the buffer so far, in call order
  released,      \* the blocks handed to free so far, in call order
  last           \* the last operation on the buffer and what it was given

authVars ==
  <<pc, rc, res, ret, buf, account, capabilities, cred, script, stepLog, wire,
    notes>>

bufVars == <<handle, data, dsize, dptr, overrun, nops, written, released, last>>

SASL_IR == "SASL_IR"

\* the room the buffer leaves for the payload: buf minus keyword, space, NUL
PayloadRoom == sizeof_buf - sizeof_auth_plain_cmd - 1

\* the lengths of encoded credentials the model tries
PayloadLens ==
  (1..MaxShortPayload) \cup ((PayloadRoom - 3)..(PayloadRoom + MaxOverflow))

\* sequences over S of length 0 .. n
RECURSIVE SeqsUpTo(_, _)
SeqsUpTo(S, n) ==
  IF n = 0 THEN {<<>>}
  ELSE LET shorter == SeqsUpTo(S, n - 1)
       IN  shorter \cup {Append(s, x) : s \in {t \in shorter : Len(t) = n - 1},
                                       x \in S}

\* what the command reader can report for one command: untagged data and
\* continuation requests, closed by the tagged OK, NO or BAD
Scripts ==
  {Append(s, t) : s \in SeqsUpTo(NonTerminal, MaxSteps - 1), t \in Terminal}

InitAuth ==
  /\ pc = "getuser"
  /\ rc = IMAP_CMD_CONTINUE
  /\ res = IMAP_AUTH_SUCCESS
  /\ ret = "none"
  /\ buf = [i \in 1..sizeof_buf |-> NUL]
  /\ account = {}
  /\ capabilities \in {{}, {SASL_IR}}
  /\ cred \in PayloadLens
  /\ script \in Scripts
  /\ stepLog = <<>>
  /\ wire = <<>>
  /\ notes = <<>>

\* imap_cmd_step(mdata): the next result of the command reader.  A reader
\* whose script is used up has nothing but untagged data to report: it
\* answers MORE again, and those further results are not logged
imap_cmd_step ==
  IF Len(stepLog) < Len(script)
  THEN /\ rc' = script[Len(stepLog) + 1]
       /\ stepLog' = Append(stepLog, script[Len(stepLog) + 1])
  ELSE /\ rc' = IMAP_CMD_CONTINUE
       /\ stepLog' = stepLog

\* imap_cmd_start(mdata, text)
imap_cmd_start(text) ==
  wire' = Append(wire, [call |-> "imap_cmd_start", text |-> text])

\* mutt_socket_send(conn, text)
mutt_socket_send(text) ==
  wire' = Append(wire, [call |-> "mutt_socket_send", text |-> text])

\* if (mutt_account_getuser(...) < 0) return IMAP_AUTH_FAILURE;
GetUser ==
  /\ pc = "getuser"
  /\ \E ok \in BOOLEAN :
       IF ok THEN pc' = "getpass" /\ ret' = ret /\ account' = account \cup {"user"}
             ELSE pc' = "done" /\ ret' = IMAP_AUTH_FAILURE /\ account' = account
  /\ UNCHANGED <<rc, res, buf, capabilities, cred, script, stepLog, wire, notes>>
  /\ UNCHANGED bufVars

\* a slip: the result of mutt_account_getpass is not looked at
GetPass_Unchecked ==
  /\ pc = "getpass"
  /\ \E ok \in BOOLEAN :
       /\ pc' = "message"
       /\ account' = IF ok THEN account \cup {"pass"} ELSE account
  /\ UNCHANGED <<rc, res, ret, buf, capabilities, cred, script, stepLog, wire, notes>>
  /\ UNCHANGED bufVars

\* if (mutt_account_getpass(...) < 0) return IMAP_AUTH_FAILURE;
GetPass ==
  /\ pc = "getpass"
  /\ \E ok \in BOOLEAN :
       IF ok THEN pc' = "message" /\ ret' = ret /\ account' = account \cup {"pass"}
             ELSE pc' = "done" /\ ret' = IMAP_AUTH_FAILURE /\ account' = account
  /\ UNCHANGED <<rc, res, buf, capabilities, cred, script, stepLog, wire, notes>>
  /\ UNCHANGED bufVars

\* mutt_message(_("Logging in..."));
LoggingIn ==
  /\ pc = "message"
  /\ notes' = Append(notes, "mutt_message")
  /\ pc' = "build"
  /\ UNCHANGED <<rc, res, ret, buf, capabilities, cred, script, stepLog, wire, account>>
  /\ UNCHANGED bufVars

\* mutt_sasl_plain_msg(buf, sizeof(buf), auth_plain_cmd, user, user, pass);
PlainMsg ==
  /\ pc = "build"
  /\ buf' = mutt_sasl_plain_msg(buf, sizeof_buf, auth_plain_cmd, Payload(cred))
  /\ pc' = "branch"
  /\ UNCHANGED <<rc, res, ret, capabilities, cred, script, stepLog, wire, notes, account>>
  /\ UNCHANGED bufVars

\* a slip: the keyword is cut off whatever the capability says
StartIR_Truncating ==
  /\ pc = "branch"
  /\ SASL_IR \in capabilities
  /\ buf' = Store(buf, Len(auth_plain_cmd), <<NUL>>)
  /\ wire' = Append(wire, [call |-> "imap_cmd_start", text |-> CStr(buf', 0)])
  /\ pc' = "loop2"
  /\ UNCHANGED <<rc, res, ret, capabilities, cred, script, stepLog, notes, account>>
  /\ UNCHANGED bufVars

\* if (mutt_bit_isset(mdata->capabilities, SASL_IR)) imap_cmd_start(mdata, buf);
StartIR ==
  /\ pc = "branch"
  /\ SASL_IR \in capabilities
  /\ imap_cmd_start(CStr(buf, 0))
  /\ pc' = "loop2"
  /\ UNCHANGED <<rc, res, ret, buf, capabilities, cred, script, stepLog, notes, account>>
  /\ UNCHANGED bufVars

\* buf[sizeof(auth_plain_cmd) - 1] = '\0';
SplitAt(b) == Store(b, sizeof_auth_plain_cmd - 1, <<NUL>>)

\* else { buf[sizeof(auth_plain_cmd) - 1] = '\0'; imap_cmd_start(mdata, buf);
StartSplit ==
  /\ pc = "branch"
  /\ SASL_IR \notin capabilities
  /\ buf' = SplitAt(buf)
  /\ imap_cmd_start(CStr(buf', 0))
  /\ pc' = "loop1"
  /\ UNCHANGED <<rc, res, ret, capabilities, cred, script, stepLog, notes, account>>
  /\ UNCHANGED bufVars

\* while (rc == IMAP_CMD_CONTINUE) rc = imap_cmd_step(mdata);   (first loop)
SplitStep ==
  /\ pc = "loop1"
  /\ rc = IMAP_CMD_CONTINUE
  /\ imap_cmd_step
  /\ UNCHANGED <<pc, res, ret, buf, capabilities, cred, script, wire, notes, account>>
  /\ UNCHANGED bufVars

\* rc as the block that answers the continuation request leaves it
RcAfterRespond(r) == r

\* if (rc == IMAP_CMD_RESPOND) { mutt_str_strcat(...); mutt_socket_send(...); }
Respond ==
  /\ pc = "loop1"
  /\ rc = IMAP_CMD_RESPOND
  /\ buf' = mutt_str_strcat(buf, sizeof_auth_plain_cmd,
                            sizeof_buf - sizeof_auth_plain_cmd, CRLF)
  /\ mutt_socket_send(CStr(buf', sizeof_auth_plain_cmd))
  /\ rc' = RcAfterRespond(rc)
  /\ pc' = "loop2"
  /\ UNCHANGED <<res, ret, capabilities, cred, script, stepLog, notes, account>>
  /\ UNCHANGED bufVars

\* a slip: the payload is sent whatever ended the first loop
NoRespond_Sending ==
  /\ pc = "loop1"
  /\ rc \notin {IMAP_CMD_CONTINUE, IMAP_CMD_RESPOND}
  /\ wire' = Append(wire, [call |-> "mutt_socket_send",
                            text |-> CStr(buf, sizeof_auth_plain_cmd)])
  /\ pc' = "loop2"
  /\ UNCHANGED <<rc, res, ret, buf, capabilities, cred, script, stepLog, notes, account>>
  /\ UNCHANGED bufVars

\* the first loop ended with a result that is no continuation request
NoRespond ==
  /\ pc = "loop1"
  /\ rc \notin {IMAP_CMD_CONTINUE, IMAP_CMD_RESPOND}
  /\ pc' = "loop2"
  /\ UNCHANGED <<rc, res, ret, buf, capabilities, cred, script, stepLog, wire, notes, account>>
  /\ UNCHANGED bufVars

\* a slip: the result of the step is not stored in rc
Step_IgnoringResult ==
  /\ pc = "loop2"
  /\ rc = IMAP_CMD_CONTINUE
  /\ stepLog' = IF Len(stepLog) < Len(script)
                THEN Append(stepLog, script[Len(stepLog) + 1])
                ELSE stepLog
  /\ UNCHANGED <<pc, rc, res, ret, buf, capabilities, cred, script, wire, notes, account>>
  /\ UNCHANGED bufVars

\* while (rc == IMAP_CMD_CONTINUE) rc = imap_cmd_step(mdata);   (second loop)
Step ==
  /\ pc = "loop2"
  /\ rc = IMAP_CMD_CONTINUE
  /\ imap_cmd_step
  /\ UNCHANGED <<pc, res, ret, buf, capabilities, cred, script, wire, notes, account>>
  /\ UNCHANGED bufVars

\* the result the classification assigns to res
AuthRes(r, old) ==
  IF r = IMAP_CMD_BAD THEN IMAP_AUTH_UNAVAIL
  ELSE IF r = IMAP_CMD_NO THEN IMAP_AUTH_FAILURE
  ELSE old

\* a slip: the rejection returns at once, leaving "Logging in..." on display
Classify_ReturningEarly ==
  /\ pc = "loop2"
  /\ rc # IMAP_CMD_CONTINUE
  /\ res' = AuthRes(rc, res)
  /\ notes' = IF rc = IMAP_CMD_NO THEN Append(notes, "mutt_error") ELSE notes
  /\ IF rc = IMAP_CMD_NO THEN pc' = "done" /\ ret' = res'
                          ELSE pc' = "clear" /\ ret' = ret
  /\ UNCHANGED <<rc, buf, capabilities, cred, script, stepLog, wire, account>>
  /\ UNCHANGED bufVars

\* a slip: a rejected command is issued once more
Classify_Retrying ==
  /\ pc = "loop2"
  /\ rc # IMAP_CMD_CONTINUE
  /\ res' = AuthRes(rc, res)
  /\ notes' = IF rc = IMAP_CMD_NO THEN Append(notes, "mutt_error") ELSE notes
  /\ wire' = IF rc = IMAP_CMD_NO
             THEN Append(wire, [call |-> "imap_cmd_start", text |-> CStr(buf, 0)])
             ELSE wire
  /\ pc' = "clear"
  /\ UNCHANGED <<rc, ret, buf, capabilities, cred, script, stepLog, account>>
  /\ UNCHANGED bufVars

\* if (rc == IMAP_CMD_BAD) ... else if (rc == IMAP_CMD_NO) { mutt_error(...); ... }
Classify ==
  /\ pc = "loop2"
  /\ rc # IMAP_CMD_CONTINUE
  /\ res' = AuthRes(rc, res)
  /\ notes' = IF rc = IMAP_CMD_NO THEN Append(notes, "mutt_error") ELSE notes
  /\ pc' = "clear"
  /\ UNCHANGED <<rc, ret, buf, capabilities, cred, script, stepLog, wire, account>>
  /\ UNCHANGED bufVars

\* mutt_clear_error(); return res;
ClearAndReturn ==
  /\ pc = "clear"
  /\ notes' = Append(notes, "mutt_clear_error")
  /\ ret' = res
  /\ pc' = "done"
  /\ UNCHANGED <<rc, res, buf, capabilities, cred, script, stepLog, wire, account>>
  /\ UNCHANGED bufVars

NextAuth ==
  \/ GetUser
  \/ GetPass
  \/ LoggingIn
  \/ PlainMsg
  \/ StartIR
  \/ StartSplit
  \/ SplitStep
  \/ Respond
  \/ NoRespond
  \/ Step
  \/ Classify
  \/ ClearAndReturn

vars == <<authVars, bufVars>>

\* no Buffer exists while the driver runs: it works on its own char array
NoBuffer ==
  /\ handle = "none"
  /\ data = <<>>
  /\ dsize = 0
  /\ dptr = 0
  /\ overrun = FALSE
  /\ nops = 0
  /\ written = <<>>
  /\ released = <<>>
  /\ last = [op |-> "none"]

Init == InitAuth /\ NoBuffer

Spec == Init /\ [][NextAuth]_vars

\* command readers that report MORE at every call
HangScripts == SeqsUpTo({IMAP_CMD_CONTINUE}, MaxSteps) \ {<<>>}

\* the start of a call whose command reader may also report MORE for ever
InitLive ==
  /\ pc = "getuser"
  /\ rc = IMAP_CMD_CONTINUE
  /\ res = IMAP_AUTH_SUCCESS
  /\ ret = "none"
  /\ buf = [i \in 1..sizeof_buf |-> NUL]
  /\ account = {}
  /\ capabilities \in {{}, {SASL_IR}}
  /\ cred \in PayloadLens
  /\ script \in Scripts \cup HangScripts
  /\ stepLog = <<>>
  /\ wire = <<>>
  /\ notes = <<>>
  /\ NoBuffer

\* the call is sequential code: while a statement can run, one does
SpecLive == InitLive /\ [][NextAuth]_vars /\ WF_vars(NextAuth)


(***************************************************************************)
(* The Buffer of lib_buffer.c.                                             *)
(*                                                                         *)
(* buf->data is the sequence of the bytes of its block (<<>> for NULL) and *)
(* buf->dptr is kept as its offset from buf->data, so that a NULL dptr is  *)
(* offset 0 from a NULL data.  A byte of a block that was never written    *)
(* holds Uninit, which is no terminator.                                   *)
(***************************************************************************)
\* the growth step of mutt_buffer_add and mutt_buffer_printf
GROW == 128

\* a byte malloc or realloc handed out and nobody wrote
Uninit == -1

\* a const char * argument: NULL, or the characters of a string
NullStr == [null |-> TRUE, chars |-> <<>>]
Str(c) == [null |-> FALSE, chars |-> c]

\* mutt_strlen(s): 0 for NULL
mutt_strlen(s) == IF s.null THEN 0 ELSE Len(s.chars)

\* safe_realloc(&p, n): a block of n bytes that keeps the old bytes
safe_realloc(d, n) ==
  IF n = 0 THEN <<>>
  ELSE [i \in 1..n |-> IF i <= Len(d) THEN d[i] ELSE Uninit]

\* safe_strdup(s): a block holding the characters of s and the terminator
safe_strdup(c) == c \o <<NUL>>

\* whether a write of n bytes at offset off leaves the block d
Outside(d, off, n) == n > 0 /\ off + n > Len(d)

\* FREE(&p): the blocks handed to free, none for a pointer that is NULL
FREE(d, block) == IF d = <<>> THEN <<>> ELSE <<block>>

\* a slip: the handle is not tested before its storage is released
mutt_buffer_free_Unguarded(h, d) ==
  [handle |-> "NULL", freed |-> FREE(d, "data") \o <<"Buffer">>]

\* mutt_buffer_free(&b): if (!p || !*p) return; FREE(&(*p)->data); FREE(p);
\* the owner's handle afterwards and the blocks handed to free
mutt_buffer_free(h, d) ==
  IF h = "NULL" THEN [handle |-> h, freed |-> <<>>]
  ELSE [handle |-> "NULL", freed |-> FREE(d, "data") \o <<"Buffer">>]

\* the fields of a struct Buffer, with the overrun flag of the operation
Buffer(d, size, ptr, over) ==
  [data |-> d, dsize |-> size, dptr |-> ptr, overrun |-> over]

\* memset(b, 0, sizeof(struct Buffer))
mutt_buffer_init == Buffer(<<>>, 0, 0, FALSE)

\* a slip: dsize counts the terminator of the seed too
mutt_buffer_from_Roomy(seed) ==
  Buffer(safe_strdup(seed), Len(seed) + 1, Len(seed), FALSE)

\* mutt_buffer_from(seed) for a seed that is not NULL
mutt_buffer_from(seed) ==
  Buffer(safe_strdup(seed), Len(seed), Len(seed), FALSE)

\* a slip: the buffer grows by what the string needs and no more
AddGrowth_Exact(len) == len + 1

\* a slip: the buffer grows by one step whatever the length
AddGrowth_OneStep(len) == GROW

\* (len < 128) ? 128 : len + 1
AddGrowth(len) == IF len < GROW THEN GROW ELSE len + 1

\* a slip: the test forgets the byte of the terminator
AddMustGrow_NoTerminator(b, len) == (b.dptr + len) > b.dsize

\* (buf->dptr + len + 1) > (buf->data + buf->dsize)
AddMustGrow(b, len) == (b.dptr + len + 1) > b.dsize

\* a slip: after growing, dptr is set to the start of the new block
mutt_buffer_add_Rewinding(b, s, len) ==
  IF s.null THEN b
  ELSE
    LET grow == AddMustGrow(b, len)
        size == IF grow THEN b.dsize + AddGrowth(len) ELSE b.dsize
        d1   == IF grow THEN safe_realloc(b.data, size) ELSE b.data
        at   == IF grow THEN 0 ELSE b.dptr
        text == Take(s.chars, len) \o <<NUL>>
    IN  Buffer(Store(d1, at, text), size, at + len,
               b.overrun \/ Outside(d1, at, len + 1))

\* a slip: a NULL string is taken for an empty one
mutt_buffer_add_NullAsEmpty(b, s, len) ==
  LET grow == AddMustGrow(b, len)
      size == IF grow THEN b.dsize + AddGrowth(len) ELSE b.dsize
      d1   == IF grow THEN safe_realloc(b.data, size) ELSE b.data
      text == Take(s.chars, len) \o <<NUL>>
  IN  Buffer(Store(d1, b.dptr, text), size, b.dptr + len,
             b.overrun \/ Outside(d1, b.dptr, len + 1))

\* mutt_buffer_add(buf, s, len) for a buf that is not NULL
mutt_buffer_add(b, s, len) ==
  IF s.null THEN b
  ELSE
    LET grow == AddMustGrow(b, len)
        size == IF grow THEN b.dsize + AddGrowth(len) ELSE b.dsize
        d1   == IF grow THEN safe_realloc(b.data, size) ELSE b.data
        text == Take(s.chars, len) \o <<NUL>>
    IN  IF d1 = <<>> /\ b.dptr = 0
        THEN Buffer(d1, size, b.dptr, b.overrun)
        ELSE Buffer(Store(d1, b.dptr, text), size, b.dptr + len,
                    b.overrun \/ Outside(d1, b.dptr, len + 1))

\* vsnprintf(d + off, n, ...): the data after the call; n is a size_t, so a
\* negative n is a huge one
vsnprintf(d, off, n, out) ==
  IF n = 0 THEN d
  ELSE IF n < 0 THEN Store(d, off, out \o <<NUL>>)
  ELSE Store(d, off, Take(out, n - 1) \o <<NUL>>)

\* the number of bytes that vsnprintf call writes
vsnprintfBytes(n, out) ==
  IF n = 0 THEN 0
  ELSE IF n < 0 \/ Len(out) < n THEN Len(out) + 1
  ELSE n

\* blen = ++len - blen; if (blen < 128) blen = 128;
PrintfGrowth(len, blen) ==
  IF len + 1 - blen < GROW THEN GROW ELSE len + 1 - blen

\* a slip: the text is formatted once, into the room there is
mutt_buffer_printf_NoRetry(b, out) ==
  LET doff  == b.dptr
      blen0 == b.dsize - doff
      blen  == IF blen0 = 0 THEN GROW ELSE blen0
      size1 == IF blen0 = 0 THEN b.dsize + GROW ELSE b.dsize
      d1    == IF blen0 = 0 THEN safe_realloc(b.data, size1) ELSE b.data
      rv    == Len(out)
  IN  [data |-> vsnprintf(d1, doff, blen, out), dsize |-> size1,
       dptr |-> IF rv > 0 THEN doff + rv ELSE doff,
       overrun |-> b.overrun \/ Outside(d1, doff, vsnprintfBytes(blen, out)),
       rv |-> rv]

\* mutt_buffer_printf(buf, fmt, ...) where the format yields out; the
\* result has the value returned as field rv
mutt_buffer_printf(b, out) ==
  LET doff  == b.dptr
      blen0 == b.dsize - doff
      blen  == IF blen0 = 0 THEN GROW ELSE blen0
      size1 == IF blen0 = 0 THEN b.dsize + GROW ELSE b.dsize
      d1    == IF blen0 = 0 THEN safe_realloc(b.data, size1) ELSE b.data
      len   == Len(out)
      d2    == vsnprintf(d1, doff, blen, out)
      over2 == Outside(d1, doff, vsnprintfBytes(blen, out))
      again == len >= blen
      size3 == IF again THEN size1 + PrintfGrowth(len, blen) ELSE size1
      d3    == IF again THEN safe_realloc(d2, size3) ELSE d2
      d4    == IF again THEN vsnprintf(d3, doff, len + 1, out) ELSE d3
      over4 == again /\ Outside(d3, doff, vsnprintfBytes(len + 1, out))
      rv    == len
  IN  [data |-> d4, dsize |-> size3,
       dptr |-> IF rv > 0 THEN doff + rv ELSE doff,
       overrun |-> b.overrun \/ over2 \/ over4, rv |-> rv]

\* the struct Buffer as the variables hold it
Buf == Buffer(data, dsize, dptr, overrun)

\* the struct Buffer becomes r
Becomes(r) ==
  /\ data' = r.data
  /\ dsize' = r.dsize
  /\ dptr' = r.dptr
  /\ overrun' = r.overrun

\* the strings the model hands to the Buffer
Letters(n, first) == [i \in 1..n |-> first + ((i - 1) % 26)]
Seeds == {<<>>, Letters(1, 97), Letters(3, 97)}
Lens == (0..MaxSmallLen) \cup ((GROW - 1)..(GROW - 1 + MaxBigOver))
AddStrings == {Letters(n, 100) : n \in Lens}
Formatted == {Letters(n, 65) : n \in Lens}

AuthIdle ==
  /\ pc = "idle"
  /\ rc = IMAP_CMD_CONTINUE
  /\ res = IMAP_AUTH_SUCCESS
  /\ ret = "none"
  /\ buf = <<>>
  /\ account = {}
  /\ capabilities = {}
  /\ cred = 0
  /\ script = <<>>
  /\ stepLog = <<>>
  /\ wire = <<>>
  /\ notes = <<>>

InitBuf == AuthIdle /\ NoBuffer

\* b = mutt_buffer_new();
New ==
  /\ handle = "none"
  /\ handle' = "live"
  /\ Becomes(mutt_buffer_init)
  /\ last' = [op |-> "mutt_buffer_new"]
  /\ UNCHANGED <<nops, written, released>>
  /\ UNCHANGED authVars

\* b = mutt_buffer_from(seed);
From ==
  /\ handle = "none"
  /\ \E seed \in Seeds :
       /\ handle' = "live"
       /\ Becomes(mutt_buffer_from(seed))
       /\ last' = [op |-> "mutt_buffer_from", arg |-> Str(seed)]
       /\ written' = seed
  /\ UNCHANGED <<nops, released>>
  /\ UNCHANGED authVars

\* b = mutt_buffer_from(NULL);
FromNull ==
  /\ handle = "none"
  /\ handle' = "NULL"
  /\ last' = [op |-> "mutt_buffer_from", arg |-> NullStr]
  /\ UNCHANGED <<data, dsize, dptr, overrun, nops, written, released>>
  /\ UNCHANGED authVars

\* mutt_buffer_addch(b, c);
AddCh ==
  /\ handle = "live"
  /\ nops < MaxOps
  /\ \E c \in {100} :
       /\ Becomes(mutt_buffer_add(Buf, Str(<<c>>), 1))
       /\ last' = [op |-> "mutt_buffer_addch", arg |-> Str(<<c>>), before |-> Buf]
       /\ written' = Append(written, c)
  /\ nops' = nops + 1
  /\ UNCHANGED <<handle, released>>
  /\ UNCHANGED authVars

\* mutt_buffer_addstr(b, s);
AddStr ==
  /\ handle = "live"
  /\ nops < MaxOps
  /\ \E s \in AddStrings :
       /\ Becomes(mutt_buffer_add(Buf, Str(s), mutt_strlen(Str(s))))
       /\ last' = [op |-> "mutt_buffer_addstr", arg |-> Str(s), before |-> Buf]
       /\ written' = written \o s
  /\ nops' = nops + 1
  /\ UNCHANGED <<handle, released>>
  /\ UNCHANGED authVars

\* mutt_buffer_addstr(b, NULL);
AddStrNull ==
  /\ handle = "live"
  /\ nops < MaxOps
  /\ Becomes(mutt_buffer_add(Buf, NullStr, mutt_strlen(NullStr)))
  /\ last' = [op |-> "mutt_buffer_addstr", arg |-> NullStr, before |-> Buf]
  /\ nops' = nops + 1
  /\ UNCHANGED <<handle, written, released>>
  /\ UNCHANGED authVars

\* mutt_buffer_addstr(NULL, s): if (!buf || !s) return;
AddToNull ==
  /\ handle = "NULL"
  /\ nops < MaxOps
  /\ \E s \in AddStrings :
       last' = [op |-> "mutt_buffer_addstr", arg |-> Str(s), before |-> Buf]
  /\ nops' = nops + 1
  /\ UNCHANGED <<handle, data, dsize, dptr, overrun, written, released>>
  /\ UNCHANGED authVars

\* mutt_buffer_printf(b, fmt, ...);
Printf ==
  /\ handle = "live"
  /\ nops < MaxOps
  /\ \E out \in Formatted :
       LET r == mutt_buffer_printf(Buf, out)
       IN  /\ Becomes(r)
           /\ last' = [op |-> "mutt_buffer_printf", arg |-> Str(out), before |-> Buf,
                       rv |-> r.rv]
           /\ written' = written \o out
  /\ nops' = nops + 1
  /\ UNCHANGED <<handle, released>>
  /\ UNCHANGED authVars

\* mutt_buffer_free(&b); the struct of a released buffer is gone
Free ==
  /\ handle \in {"live", "NULL"}
  /\ LET r == mutt_buffer_free(handle, data)
     IN  /\ handle' = r.handle
         /\ released' = released \o r.freed
  /\ IF handle = "live"
     THEN Becomes(Buffer(<<>>, 0, 0, overrun)) /\ written' = <<>>
     ELSE UNCHANGED <<data, dsize, dptr, overrun, written>>
  /\ last' = [op |-> "mutt_buffer_free", was |-> handle, before |-> Buf,
              freed |-> released]
  /\ UNCHANGED nops
  /\ UNCHANGED authVars

NextBuf ==
  \/ New
  \/ From
  \/ FromNull
  \/ AddCh
  \/ AddStr
  \/ AddStrNull
  \/ AddToNull
  \/ Printf
  \/ Free

SpecBuf == InitBuf /\ [][NextBuf]_vars

(***************************************************************************)
(* Vocabulary of the properties of imap_auth_plain.                        *)
(***************************************************************************)
Returned == pc = "done"
CredsObtained == account = {"user", "pass"}
SplitBranch == SASL_IR \notin capabilities

\* the payload as the encoder leaves it in buf: what follows
\* "AUTHENTICATE PLAIN " in the single-shot text
EncodedPayload == Take(Payload(cred), PayloadRoom)

\* the single-shot text  AUTHENTICATE PLAIN <payload>
FullText == auth_plain_cmd \o <<SP>> \o EncodedPayload

Last(s) == s[Len(s)]
Count(s, x) == Cardinality({i \in DOMAIN s : s[i] = x})
CallsOf(c) == {i \in DOMAIN wire : wire[i].call = c}

\* index of the first result of the script that is not MORE
FirstOther(s) ==
  CHOOSE i \in DOMAIN s :
    /\ s[i] # IMAP_CMD_CONTINUE
    /\ \A j \in 1..(i - 1) : s[j] = IMAP_CMD_CONTINUE

(***************************************************************************)
(* C1: once the credentials are there, an exchange whose step sequence     *)
(* ends in REJECTED returns FAILURE with exactly one error notification,   *)
(* and one that ends in UNAVAILABLE returns UNAVAIL with none, also when   *)
(* the closing result comes after a continuation request was answered.     *)
(***************************************************************************)
C1_Classification ==
  (Returned /\ CredsObtained) =>
    /\ Last(script) = IMAP_CMD_NO =>
         (ret = IMAP_AUTH_FAILURE /\ Count(notes, "mutt_error") = 1)
    /\ Last(script) = IMAP_CMD_BAD =>
         (ret = IMAP_AUTH_UNAVAIL /\ Count(notes, "mutt_error") = 0)

(***************************************************************************)
(* C2: once the credentials are there, the call returns only after a step  *)
(* reported OK, REJECTED or UNAVAILABLE: the last step result is never     *)
(* MORE or CONTINUE_REQUESTED, and in the split branch a step follows the  *)
(* sending of the continuation payload.                                     *)
(***************************************************************************)
C2_StepsUntilTerminal ==
  (Returned /\ CredsObtained) =>
    /\ stepLog # <<>>
    /\ Last(stepLog) \in Terminal
    /\ CallsOf("mutt_socket_send") # {} =>
         Len(stepLog) > FirstOther(script)

(***************************************************************************)
(* C3: in the split branch with valid credentials, when the first result   *)
(* other than MORE is CONTINUE_REQUESTED, exactly two messages go out: the *)
(* bare keyword through imap_cmd_start, then the payload and CRLF through  *)
(* mutt_socket_send; for MORE, CONTINUE_REQUESTED, MORE, OK the result is  *)
(* SUCCESS.                                                                *)
(***************************************************************************)
C3_SplitExchange ==
  (Returned /\ CredsObtained /\ SplitBranch
     /\ script[FirstOther(script)] = IMAP_CMD_RESPOND) =>
    /\ wire = << [call |-> "imap_cmd_start", text |-> auth_plain_cmd],
                 [call |-> "mutt_socket_send", text |-> EncodedPayload \o CRLF] >>
    /\ script = <<IMAP_CMD_CONTINUE, IMAP_CMD_RESPOND, IMAP_CMD_CONTINUE, IMAP_CMD_OK>>
         => ret = IMAP_AUTH_SUCCESS

(***************************************************************************)
(* C4: with SASL-IR set and valid credentials, whatever the steps report,  *)
(* exactly one imap_cmd_start call is made, with the full text             *)
(* AUTHENTICATE PLAIN <payload>, and mutt_socket_send is never called.     *)
(***************************************************************************)
C4_SingleShot ==
  (CredsObtained /\ ~SplitBranch) =>
    IF pc \in {"loop2", "clear", "done"}
    THEN wire = << [call |-> "imap_cmd_start", text |-> FullText] >>
    ELSE wire = <<>>

C4_Witness ==
  /\ Returned /\ CredsObtained /\ ~SplitBranch
  /\ Len(wire) = 1
  /\ Len(stepLog) >= 2
  /\ IMAP_CMD_RESPOND \in {stepLog[i] : i \in DOMAIN stepLog}

(***************************************************************************)
(* C5: in the split branch, when the first result other than MORE is       *)
(* REJECTED or UNAVAILABLE, nothing is sent to the transport, step is not  *)
(* called again, and the result is FAILURE for REJECTED and UNAVAIL for    *)
(* UNAVAILABLE.                                                            *)
(***************************************************************************)
C5_DeniedOutright ==
  (CredsObtained /\ SplitBranch
     /\ script[FirstOther(script)] \in {IMAP_CMD_NO, IMAP_CMD_BAD}) =>
    /\ CallsOf("mutt_socket_send") = {}
    /\ Len(stepLog) <= FirstOther(script)
    /\ Returned =>
         /\ wire = << [call |-> "imap_cmd_start", text |-> auth_plain_cmd] >>
         /\ stepLog = SubSeq(script, 1, FirstOther(script))
         /\ ret = IF Last(stepLog) = IMAP_CMD_NO THEN IMAP_AUTH_FAILURE
                                                ELSE IMAP_AUTH_UNAVAIL

C5_Witness ==
  /\ Returned /\ CredsObtained /\ SplitBranch
  /\ stepLog = <<IMAP_CMD_CONTINUE, IMAP_CMD_CONTINUE, IMAP_CMD_NO>>
  /\ ret = IMAP_AUTH_FAILURE

(***************************************************************************)
(* C6: when the user name or the password cannot be had, the call returns  *)
(* FAILURE and neither imap_cmd_start, nor mutt_socket_send, nor           *)
(* imap_cmd_step has been called, whatever the capabilities.               *)
(***************************************************************************)
C6_NoCredentialsNoTraffic ==
  ~CredsObtained =>
    /\ wire = <<>>
    /\ stepLog = <<>>
    /\ Returned => ret = IMAP_AUTH_FAILURE

C6_Witness ==
  /\ Returned
  /\ account = {"user"}
  /\ SASL_IR \in capabilities
  /\ ret = IMAP_AUTH_FAILURE

(***************************************************************************)
(* C7: in the split branch, for every payload the encoder leaves in buf,   *)
(* one that fills buf to its last byte included, the first line is exactly *)
(* AUTHENTICATE PLAIN and the continuation is exactly the payload of the   *)
(* single-shot text followed by CRLF.                                      *)
(***************************************************************************)
C7_ByteExactFraming ==
  SplitBranch =>
    \A i \in DOMAIN wire :
      /\ wire[i].call = "imap_cmd_start" => wire[i].text = auth_plain_cmd
      /\ wire[i].call = "mutt_socket_send" => wire[i].text = EncodedPayload \o CRLF

(***************************************************************************)
(* C8 as stated: on every exit path, the failure to get credentials        *)
(* included, mutt_clear_error is called before the return and is the last  *)
(* notification of the call.                                               *)
(***************************************************************************)
C8_ClearOnEveryExit ==
  Returned => (notes # <<>> /\ Last(notes) = "mutt_clear_error")

(***************************************************************************)
(* C8 as amended: on every exit path after the credentials were obtained   *)
(* (SUCCESS, FAILURE by rejection, UNAVAIL) mutt_clear_error is the last   *)
(* notification of the call; when the credentials cannot be had the call   *)
(* makes no notification at all.  Either way "Logging in..." is not the    *)
(* notification on display after the return.                               *)
(***************************************************************************)
C8_ClearAfterLogin ==
  Returned =>
    /\ CredsObtained =>
         /\ notes # <<>>
         /\ Head(notes) = "mutt_message"
         /\ Last(notes) = "mutt_clear_error"
         /\ Count(notes, "mutt_clear_error") = 1
    /\ ~CredsObtained => notes = <<>>

C8_Witness ==
  /\ Returned
  /\ ret = IMAP_AUTH_FAILURE
  /\ notes = <<"mutt_message", "mutt_error", "mutt_clear_error">>


(***************************************************************************)
(* Vocabulary of the properties of the Buffer.                             *)
(***************************************************************************)
Live == handle = "live"
Constructed == last.op \in {"mutt_buffer_new", "mutt_buffer_from"}
Appended ==
  last.op \in {"mutt_buffer_addch", "mutt_buffer_addstr", "mutt_buffer_printf"}

\* the last call was an append or a format that was given data
AppendedData == Appended /\ ~last.arg.null

\* the byte at the cursor exists and is the terminator
Terminated == dptr < Len(data) /\ data[dptr + 1] = NUL

C10_RoomForTerminatorAlways ==
  (Live /\ last.op # "none") => (dptr <= dsize - 1 /\ dsize >= dptr + 1)

(***************************************************************************)
(* C10 as amended: the cursor never exceeds the capacity.  After an append *)
(* or a format that was given data the cursor is at most capacity - 1;     *)
(* the constructors leave cursor = capacity (0 for mutt_buffer_new and     *)
(* mutt_buffer_init, the length of the seed for mutt_buffer_from), and an  *)
(* append of NULL changes neither.                                         *)
(***************************************************************************)
C10_RoomForTerminator ==
  Live =>
    /\ dptr <= dsize
    /\ AppendedData => (dptr <= dsize - 1 /\ dsize >= dptr + 1)
    /\ Constructed => dptr = dsize
    /\ last.op = "mutt_buffer_from" => dsize = Len(last.arg.chars)
    /\ last.op = "mutt_buffer_new" => dsize = 0
    /\ (Appended /\ last.arg.null) =>
         (dptr = last.before.dptr /\ dsize = last.before.dsize)

C10_Witness ==
  /\ Live
  /\ last.op = "mutt_buffer_from"
  /\ Len(last.arg.chars) = 3
  /\ dptr = 3
  /\ dsize = 3


(***************************************************************************)
(* C11: over any sequence of append and format calls on one buffer the     *)
(* capacity never decreases, every call that changes it adds at least 128  *)
(* bytes, and a call whose write already fits (cursor + length + 1 <=      *)
(* capacity) leaves it unchanged.                                          *)
(***************************************************************************)
C11_CapacityGrowth ==
  (Live /\ Appended) =>
    /\ dsize >= last.before.dsize
    /\ dsize # last.before.dsize => dsize >= last.before.dsize + GROW
    /\ (last.arg.null
          \/ last.before.dptr + Len(last.arg.chars) + 1 <= last.before.dsize)
         => dsize = last.before.dsize

C11_Witness ==
  /\ Live
  /\ last.op = "mutt_buffer_printf"
  /\ last.before.dsize > 0
  /\ last.before.dptr + Len(last.arg.chars) + 1 = last.before.dsize
  /\ dsize = last.before.dsize
  /\ nops = 3

\* the last call was mutt_buffer_add, through addstr or addch, with data
\* that does not fit the room left
AddedBeyondRoom ==
  /\ Live
  /\ last.op \in {"mutt_buffer_addch", "mutt_buffer_addstr"}
  /\ ~last.arg.null
  /\ last.before.dptr + Len(last.arg.chars) + 1 > last.before.dsize

\* capacity - cursor - 1 before the last call
RemainingBefore == last.before.dsize - last.before.dptr - 1

Max(a, b) == IF a > b THEN a ELSE b

(***************************************************************************)
(* C12 as stated: when mutt_buffer_add appends length bytes and the        *)
(* remaining capacity is insufficient, the capacity grows by exactly       *)
(* max(128, length + 1 - remaining).                                       *)
(***************************************************************************)
C12_GrowthIsMaxOfStepAndNeed ==
  AddedBeyondRoom =>
    dsize - last.before.dsize
      = Max(GROW, Len(last.arg.chars) + 1 - RemainingBefore)

(***************************************************************************)
(* C12 as amended: when mutt_buffer_add appends length bytes and the       *)
(* remaining capacity is insufficient, the capacity grows by exactly 128   *)
(* when length < 128 and by exactly length + 1 when length >= 128,         *)
(* whatever the remaining capacity; the grown capacity holds the bytes     *)
(* and the terminator.                                                     *)
(***************************************************************************)
C12_GrowthByStepOrLength ==
  AddedBeyondRoom =>
    /\ Len(last.arg.chars) < GROW => dsize - last.before.dsize = GROW
    /\ Len(last.arg.chars) >= GROW =>
         dsize - last.before.dsize = Len(last.arg.chars) + 1
    /\ dsize >= last.before.dptr + Len(last.arg.chars) + 1

C12_Witness ==
  /\ AddedBeyondRoom
  /\ Len(last.arg.chars) >= GROW
  /\ RemainingBefore > 0
  /\ dsize = last.before.dsize + Len(last.arg.chars) + 1


\* the bytes of the buffer before the cursor
Content == [i \in 1..dptr |-> data[i]]

(***************************************************************************)
(* C13: for every seed and every sequence of mutt_buffer_addstr and        *)
(* mutt_buffer_addch calls the content up to the cursor is the seed        *)
(* followed by the appended strings and characters in call order, and the  *)
(* cursor is the total length; growing loses and reorders nothing.         *)
(***************************************************************************)
C13_ContentInCallOrder ==
  Live => (dptr = Len(written) /\ dptr <= Len(data) /\ Content = written)

C13_Witness ==
  /\ Live
  /\ last.op = "mutt_buffer_addch"
  /\ last.before.dptr = 3
  /\ last.before.dsize = 3
  /\ written = <<97, 98, 99, 100>>
  /\ dptr = 4
  /\ data[5] = NUL


(***************************************************************************)
(* C14: for every buffer state (empty, seeded with cursor = capacity,      *)
(* partly filled) and every formatted text of length L,                    *)
(* mutt_buffer_printf writes the whole text at the old cursor, returns L   *)
(* and advances the cursor by L when L > 0; when the result is not         *)
(* positive the cursor stays.  The bytes before the old cursor stay.       *)
(***************************************************************************)
C14_PrintfWritesAll ==
  (Live /\ last.op = "mutt_buffer_printf") =>
    LET L  == Len(last.arg.chars)
        c0 == last.before.dptr
    IN  /\ last.rv = L
        /\ L > 0 => dptr = c0 + L
        /\ last.rv <= 0 => dptr = c0
        /\ c0 + L < Len(data)
        /\ \A i \in 1..L : data[c0 + i] = last.arg.chars[i]
        /\ data[c0 + L + 1] = NUL
        /\ \A i \in 1..c0 : data[i] = last.before.data[i]

C14_Witness ==
  /\ Live
  /\ last.op = "mutt_buffer_printf"
  /\ last.before.dsize > 0
  /\ last.before.dptr = last.before.dsize
  /\ Len(last.arg.chars) >= GROW
  /\ dptr = last.before.dptr + Len(last.arg.chars)


\* a call of imap_cmd_start or mutt_socket_send is made in this step
Sends(c) == Len(wire') = Len(wire) + 1 /\ wire'[Len(wire')].call = c

(***************************************************************************)
(* C15: whatever the capabilities and the step results, one call of        *)
(* imap_auth_plain issues at most one imap_cmd_start and at most one       *)
(* mutt_socket_send; the send comes after the start, only in the split     *)
(* branch and only right after a step returned CONTINUE_REQUESTED; nothing *)
(* is issued after a rejection.                                            *)
(***************************************************************************)
C15_OneExchange ==
  /\ [](/\ Cardinality(CallsOf("imap_cmd_start")) <= 1
        /\ Cardinality(CallsOf("mutt_socket_send")) <= 1
        /\ \A i \in CallsOf("mutt_socket_send") :
             SplitBranch /\ i > 1 /\ wire[i - 1].call = "imap_cmd_start")
  /\ [][Sends("mutt_socket_send") =>
          (stepLog # <<>> /\ Last(stepLog) = IMAP_CMD_RESPOND
             /\ rc = IMAP_CMD_RESPOND /\ stepLog' = stepLog)]_vars
  /\ [][(\E i \in DOMAIN stepLog : stepLog[i] = IMAP_CMD_NO) => wire' = wire]_vars

C15_Witness ==
  /\ Returned
  /\ Len(wire) = 2
  /\ wire[2].call = "mutt_socket_send"
  /\ stepLog = <<IMAP_CMD_CONTINUE, IMAP_CMD_RESPOND>>

(***************************************************************************)
(* C16: imap_auth_plain returns SUCCESS only if a step of that attempt     *)
(* returned OK; it does not report success while the last step result is   *)
(* CONTINUE_REQUESTED, in either branch.                                   *)
(***************************************************************************)
C16_SuccessOnlyAfterOk ==
  (Returned /\ ret = IMAP_AUTH_SUCCESS) =>
    (\E i \in DOMAIN stepLog : stepLog[i] = IMAP_CMD_OK)


(***************************************************************************)
(* C17: when the step function reports something other than MORE after     *)
(* finitely many calls, every call of imap_auth_plain returns in the end,  *)
(* in both branches; when it reports MORE for ever the call never returns  *)
(* (nothing bounds the number of step calls).                              *)
(***************************************************************************)
C17_ReturnsUnlessMoreForever ==
  /\ script \in Scripts => <>Returned
  /\ script \in HangScripts =>
       /\ [](CredsObtained => ~Returned)
       /\ [](Len(stepLog) = Len(script) =>
              [](pc \in {"loop1", "loop2"} /\ rc = IMAP_CMD_CONTINUE))

C17_Witness ==
  /\ Returned
  /\ SplitBranch
  /\ stepLog = <<IMAP_CMD_CONTINUE, IMAP_CMD_CONTINUE, IMAP_CMD_CONTINUE, IMAP_CMD_OK>>
  /\ ret = IMAP_AUTH_SUCCESS

\* the last call was an append of a string, by either entry point
AppendedString == last.op \in {"mutt_buffer_addch", "mutt_buffer_addstr"}

\* the last call appended nothing: no buffer, no string, or a string of length 0
NothingToAppend ==
  AppendedString /\ (handle = "NULL" \/ last.arg.null \/ last.arg.chars = <<>>)

(***************************************************************************)
(* C18 as stated: an append with absent data, with a zero-length string or *)
(* with an absent buffer handle changes nothing: cursor, capacity and      *)
(* stored bytes are as before, whatever the state of the buffer.           *)
(***************************************************************************)
C18_EmptyAppendIsNoOp == NothingToAppend => Buf = last.before

(***************************************************************************)
(* C18 as the code has it: an append with absent data or with an absent    *)
(* buffer handle changes nothing.  An append of a zero-length string       *)
(* leaves the cursor and the bytes before it as they were; it changes      *)
(* nothing at all when cursor + 1 <= capacity, and otherwise (a freshly    *)
(* constructed empty buffer, a seeded buffer whose cursor equals its       *)
(* capacity) it enlarges the capacity by 128 and stores the terminator at  *)
(* the cursor.                                                             *)
(***************************************************************************)
C18_EmptyAppendKeepsContent ==
  NothingToAppend =>
    LET b == last.before
    IN  IF handle = "NULL" \/ last.arg.null
        THEN Buf = b
        ELSE /\ dptr = b.dptr
             /\ SubSeq(data, 1, dptr) = SubSeq(b.data, 1, dptr)
             /\ overrun = b.overrun
             /\ IF b.dptr + 1 <= b.dsize
                THEN dsize = b.dsize /\ data = b.data
                ELSE /\ dsize = b.dsize + GROW
                     /\ data = Store(safe_realloc(b.data, dsize), dptr, <<NUL>>)

\* a zero-length string was appended to a seeded buffer whose cursor was at
\* its capacity, and the capacity grew
C18_Witness ==
  /\ Live
  /\ last.op = "mutt_buffer_addstr"
  /\ last.arg = Str(<<>>)
  /\ last.before.dsize = 3
  /\ last.before.dptr = 3
  /\ dsize = 3 + GROW

\* the last call was a release
Freed == last.op = "mutt_buffer_free"

\* the blocks a release of the buffer b hands to free
BlocksOf(b) == (IF b.data = <<>> THEN <<>> ELSE <<"data">>) \o <<"Buffer">>

(***************************************************************************)
(* C19: mutt_buffer_free releases the storage (the data block if there is  *)
(* one, then the struct) and leaves the owner's handle NULL; a call on a   *)
(* handle that is NULL already changes nothing, so no block is handed to   *)
(* free twice, however many release calls are made.                        *)
(***************************************************************************)
C19_ReleasedOnce ==
  /\ \A i, j \in DOMAIN released : released[i] = released[j] => i = j
  /\ Live => released = <<>>
  /\ Freed =>
       /\ handle = "NULL"
       /\ data = <<>>
       /\ IF last.was = "live"
          THEN released = BlocksOf(last.before)
          ELSE released = last.freed /\ Buf = last.before

\* a buffer with data was released, and released again
C19_Witness ==
  /\ Freed
  /\ last.was = "NULL"
  /\ released = <<"data", "Buffer">>

=============================================================================
